---- MODULE Spec2Model ----
(***************************************************************************)
(* mrpt::containers::vector_with_small_size_optimization<bool, 1>          *)
(* (libs/containers/include/mrpt/containers/                               *)
(*  vector_with_small_size_optimization.h).                                *)
(*                                                                         *)
(* Two container objects, X and Y, are modelled so that swap(vector&) has  *)
(* a distinct argument.  Sequences are 1-based: the C++ index i is the     *)
(* TLA+ index i + 1.  Spec is the program with an allocator that never     *)
(* fails; SpecFail adds the two places of resize() where std::bad_alloc    *)
(* can leave it.                                                           *)
(***************************************************************************)
EXTENDS Integers, Sequences, FiniteSets, TLC

\* template parameter small_size: the instantiation modelled has one inline
\* slot
small_size == 1

\* largest argument passed to resize()
MaxN == 3

\* the two container objects
Containers == {"X", "Y"}

\* The caller resizes and writes X; Y is the other operand of swap, as
\* x.swap(y) and as y.swap(x), so every state X can be in reaches Y too.
Driven == {"X"}

\* struct UnspecializedBool { bool b; }: the element type T when VAL = bool
UnspecializedBool == [b : BOOLEAN]

\* using T = conditional_t<is_same_v<VAL, bool>, UnspecializedBool, VAL>
T == UnspecializedBool

\* T(): the value-initialized element that std::vector::resize appends
DefaultT == [b |-> FALSE]

\* UnspecializedBool::operator bool&(): the bool a slot converts to
ToBool(t) == t.b

\* std::array<T, small_size>
small_array == [1..small_size -> T]

VARIABLES
    m_v,         \* m_v[c]: large_vec, the elements of the std::vector
    m_a,         \* m_a[c]: small_array
    m_is_small,  \* m_is_small[c]
    m_size,      \* m_size[c]
    last,        \* the call that produced this state
    iter,        \* an iterator object the caller holds (its m_ptr)
    ret,         \* the iterator the last iterator operator returned
    trace,       \* the steps the scenario under check has performed
    pre          \* size, Mode and visible elements when that scenario began

vars == <<m_v, m_a, m_is_small, m_size, last, iter, ret, trace, pre>>

\* the variables only the iterator and swap scenarios use
scenario_vars == <<iter, ret, trace, pre>>

----------------------------------------------------------------------------
\* Pure helpers: the std:: calls the container makes

Min(a, b) == IF a < b THEN a ELSE b

\* the values an out-of-range read may produce: reading count elements of
\* src is defined when src has them, and yields indeterminate values if not
Junk(src, count) ==
    IF count <= Len(src) THEN {[i \in 1..MaxN |-> DefaultT]}
    ELSE [1..MaxN -> T]

\* m_v.assign(first, first + count): the vector becomes a copy of the range
assign(src, count, junk) ==
    [i \in 1..count |-> IF i <= Len(src) THEN src[i] ELSE junk[i]]

\* vec_resize that grows but never truncates
vec_resize_no_shrink(v, n) ==
    IF n <= Len(v) THEN v
    ELSE [i \in 1..n |-> IF i <= Len(v) THEN v[i] ELSE DefaultT]

\* std::vector::resize(n): truncate, or append value-initialized elements
vec_resize(v, n) ==
    IF n <= Len(v) THEN [i \in 1..n |-> v[i]]
    ELSE [i \in 1..n |-> IF i <= Len(v) THEN v[i] ELSE DefaultT]

\* std_copy that stops one element early
std_copy_short(src, count, dst, junk) ==
    [i \in 1..Len(dst) |->
        IF i < count THEN (IF i <= Len(src) THEN src[i] ELSE junk[i])
        ELSE dst[i]]

\* std::copy(src.begin(), src.begin() + count, dst.begin())
std_copy(src, count, dst, junk) ==
    [i \in 1..Len(dst) |->
        IF i <= count THEN (IF i <= Len(src) THEN src[i] ELSE junk[i])
        ELSE dst[i]]

\* is_small_for with < in place of <=
is_small_for_strict(n) == n < small_size

\* m_is_small = (n <= small_size)
is_small_for(n) == n <= small_size

\* grows_to_large without the test of m_is_small
grows_to_large_any_mode(small, n) == n > small_size

\* resize(): m_is_small && n > small_size
grows_to_large(small, n) == small /\ n > small_size

\* shrinks_to_small without the test of m_is_small
shrinks_to_small_any_mode(small, n) == n <= small_size

\* resize(): !m_is_small && n <= small_size
shrinks_to_small(small, n) == ~small /\ n <= small_size

----------------------------------------------------------------------------
\* Read-only members

\* size()
size(c) == m_size[c]

\* empty()
empty(c) == m_size[c] = 0

\* subscript that always indexes the small array
subscript_small_only(c, n) == [store |-> "m_a", owner |-> c, off |-> n]

\* operator[](n): the slot it refers to, as (storage, owner, offset)
subscript(c, n) ==
    [store |-> IF m_is_small[c] THEN "m_a" ELSE "m_v", owner |-> c, off |-> n]

\* the slot exists in the storage it names
InRange(p) ==
    /\ p.off >= 0
    /\ p.off < (IF p.store = "m_a" THEN small_size ELSE Len(m_v[p.owner]))

\* reading through a reference or pointer to a slot
Deref(p) ==
    IF p.store = "m_a" THEN m_a[p.owner][p.off + 1]
    ELSE m_v[p.owner][p.off + 1]

\* begin that always points into the small array
begin_small_only(c) == [store |-> "m_a", owner |-> c, off |-> 0]

\* begin(): m_is_small ? m_a.data() : m_v.data()
begin(c) ==
    [store |-> IF m_is_small[c] THEN "m_a" ELSE "m_v", owner |-> c, off |-> 0]

\* end(): m_is_small ? m_a.data() + m_size : m_v.data() + m_size
end(c) ==
    [store |-> IF m_is_small[c] THEN "m_a" ELSE "m_v", owner |-> c,
     off |-> m_size[c]]

\* front(): m_is_small ? m_a.front() : m_v.front()
front(c) ==
    [store |-> IF m_is_small[c] THEN "m_a" ELSE "m_v", owner |-> c, off |-> 0]

\* back that always takes the last slot of the small array
back_of_small_array(c) ==
    [store |-> "m_a", owner |-> c, off |-> m_size[c] - 1]

\* back(): m_is_small ? m_a[m_size - 1] : m_v.back()
back(c) ==
    IF m_is_small[c]
    THEN [store |-> "m_a", owner |-> c, off |-> m_size[c] - 1]
    ELSE [store |-> "m_v", owner |-> c, off |-> Len(m_v[c]) - 1]

\* iteratorImpl(): STORAGE m_ptr{nullptr}
NullIterator == [store |-> "null", owner |-> "X", off |-> 0]

\* iteratorImpl::operator+(difference_type n)
IterPlus(it, n) == [it EXCEPT !.off = it.off + n]

\* iteratorImpl::operator-(const self& o)
IterDiff(it, o) == it.off - o.off

\* iteratorImpl::operator*()
IterDeref(it) == Deref(it)

\* The increment and decrement operators: self is the iterator afterwards,
\* ret the iterator the call returns.

\* operator_pre_inc that returns the moved iterator
operator_pre_inc_returns_moved(i) ==
    [self |-> IterPlus(i, 1), ret |-> IterPlus(i, 1)]

\* self operator++() { self i = *this; m_ptr++; return i; }
operator_pre_inc(i) == [self |-> IterPlus(i, 1), ret |-> i]

\* self operator--() { self i = *this; m_ptr--; return i; }
operator_pre_dec(i) == [self |-> IterPlus(i, -1), ret |-> i]

\* operator_post_inc that returns a copy taken before the move
operator_post_inc_snapshot(i) == [self |-> IterPlus(i, 1), ret |-> i]

\* self operator++(int) { m_ptr++; return *this; }
operator_post_inc(i) ==
    LET moved == IterPlus(i, 1) IN [self |-> moved, ret |-> moved]

\* self operator--(int) { m_ptr--; return *this; }
operator_post_dec(i) ==
    LET moved == IterPlus(i, -1) IN [self |-> moved, ret |-> moved]

\* what a caller reads at index n: <<value>>, or <<>> when the active
\* storage has no such slot
Read(c, n) ==
    IF InRange(subscript(c, n)) THEN <<ToBool(Deref(subscript(c, n)))>>
    ELSE <<>>

\* the elements a caller can see: indices [0, size) through operator[]
Visible(c) == [i \in 1..m_size[c] |-> Read(c, i - 1)]

----------------------------------------------------------------------------
\* size, Mode and visible elements of both containers
Snapshot ==
    [m_size |-> m_size, m_is_small |-> m_is_small,
     visible |-> [c \in Containers |-> Visible(c)]]

\* the snapshot of two freshly constructed containers
NoSnapshot ==
    [m_size |-> [c \in Containers |-> 0],
     m_is_small |-> [c \in Containers |-> TRUE],
     visible |-> [c \in Containers |-> <<>>]]

NoCall == [op |-> "init", self |-> "X", n |-> 0, was_small |-> TRUE,
           repeat |-> FALSE]

\* A freshly constructed object: m_v empty, m_is_small = true, m_size = 0.
\* m_a has no initializer: its elements are indeterminate.
Init ==
    /\ m_v = [c \in Containers |-> <<>>]
    /\ m_a \in [Containers -> small_array]
    /\ m_is_small = [c \in Containers |-> TRUE]
    /\ m_size = [c \in Containers |-> 0]
    /\ last = NoCall
    /\ iter = NullIterator
    /\ ret = NullIterator
    /\ trace = <<>>
    /\ pre = NoSnapshot

\* migrated that also releases the large vector when it shrinks to Small
migrated_releasing(self, n, junk) ==
    LET s == m_size[self]
        grow == s # 0 /\ grows_to_large(m_is_small[self], n)
        shrink == s # 0 /\ ~grow /\ shrinks_to_small(m_is_small[self], n)
    IN  [v |-> IF grow THEN assign(m_a[self], s, junk)
               ELSE IF shrink THEN <<>> ELSE m_v[self],
         a |-> IF shrink THEN std_copy(m_v[self], n, m_a[self], junk)
               ELSE m_a[self]]

\* resize() up to and including the migration (the if / else-if block):
\* the large vector and the small array it leaves
migrated(self, n, junk) ==
    LET s == m_size[self]
        grow == s # 0 /\ grows_to_large(m_is_small[self], n)
        shrink == s # 0 /\ ~grow /\ shrinks_to_small(m_is_small[self], n)
    IN  [v |-> IF grow THEN assign(m_a[self], s, junk) ELSE m_v[self],
         a |-> IF shrink THEN std_copy(m_v[self], n, m_a[self], junk)
               ELSE m_a[self]]

\* the indeterminate values the migration of resize(n) may read
MigrationJunk(self, n) ==
    IF m_size[self] # 0 /\ grows_to_large(m_is_small[self], n)
    THEN Junk(m_a[self], m_size[self])
    ELSE IF m_size[self] # 0 /\ shrinks_to_small(m_is_small[self], n)
    THEN Junk(m_v[self], n)
    ELSE Junk(<<>>, 0)

\* void resize(size_type n)
resize(self, n) ==
    \E junk \in MigrationJunk(self, n) :
      LET m == migrated(self, n, junk)
      IN  /\ m_a' = [m_a EXCEPT ![self] = m.a]
          /\ m_size' = [m_size EXCEPT ![self] = n]
          /\ m_is_small' = [m_is_small EXCEPT ![self] = is_small_for(n)]
          /\ m_v' = [m_v EXCEPT ![self] =
                        IF ~is_small_for(n) THEN vec_resize(m.v, n) ELSE m.v]
          /\ last' = [op |-> "resize", self |-> self, n |-> n,
                      was_small |-> m_is_small[self],
                      repeat |-> (last.op = "resize" /\ last.self = self
                                  /\ last.n = n)]

\* a std::vector that has never held an element owns no buffer, so any
\* growth of it has to allocate
must_allocate(v) == v = <<>>

\* resize(n) when m_v.assign() throws std::bad_alloc (line 137): nothing has
\* been assigned yet
resize_throws_in_assign(self, n) ==
    /\ m_size[self] # 0
    /\ grows_to_large(m_is_small[self], n)
    /\ must_allocate(m_v[self])
    /\ UNCHANGED <<m_v, m_a, m_is_small, m_size>>
    /\ last' = [op |-> "bad_alloc", self |-> self, n |-> n,
                was_small |-> m_is_small[self], repeat |-> FALSE]

\* resize(n) when the final m_v.resize() throws std::bad_alloc (line 148):
\* the migration, m_size = n and m_is_small = false have already run, and
\* std::vector::resize leaves the vector as it was
resize_throws_in_resize(self, n) ==
    /\ ~is_small_for(n)
    /\ must_allocate(m_v[self])
    /\ \E junk \in MigrationJunk(self, n) :
         LET m == migrated(self, n, junk)
         IN  /\ m_a' = [m_a EXCEPT ![self] = m.a]
             /\ m_v' = [m_v EXCEPT ![self] = m.v]
    /\ m_size' = [m_size EXCEPT ![self] = n]
    /\ m_is_small' = [m_is_small EXCEPT ![self] = is_small_for(n)]
    /\ last' = [op |-> "bad_alloc", self |-> self, n |-> n,
                was_small |-> m_is_small[self], repeat |-> FALSE]

\* swap_count that drops the last element
swap_count_short(sz) == sz - 1

\* the element count swap() copies out of a small array
swap_count(sz) == sz

\* swap that exchanges every member, whatever the Modes
swap_every_member(self, x) ==
    /\ self # x
    /\ m_a' = [m_a EXCEPT ![self] = m_a[x], ![x] = m_a[self]]
    /\ m_v' = [m_v EXCEPT ![self] = m_v[x], ![x] = m_v[self]]
    /\ m_size' = [m_size EXCEPT ![self] = m_size[x], ![x] = m_size[self]]
    /\ m_is_small' = [m_is_small EXCEPT ![self] = m_is_small[x],
                                        ![x] = m_is_small[self]]
    /\ last' = [op |-> "swap", self |-> self, n |-> 0,
                was_small |-> m_is_small[self], repeat |-> FALSE]

\* std::swap that assigns the second operand to the first and stops
std_swap_assign(f, a, b) == [f EXCEPT ![a] = f[b]]

\* std::swap(a, b) and a.swap(b) on the member f of objects a and b
std_swap(f, a, b) == [f EXCEPT ![a] = f[b], ![b] = f[a]]

\* the small arrays after the storage statements of swap() (lines 176-193)
swap_m_a(self, x) ==
    LET ss == m_is_small[self]
        xs == m_is_small[x]
    IN  IF ss /\ xs THEN [m_a EXCEPT ![self] = m_a[x], ![x] = m_a[self]]
        ELSE IF ~ss /\ ~xs THEN m_a
        ELSE IF ~ss /\ xs
        THEN [m_a EXCEPT ![self] =
                std_copy(m_a[x], swap_count(m_size[x]), m_a[self], m_a[self])]
        ELSE [m_a EXCEPT ![x] =
                std_copy(m_a[self], swap_count(m_size[self]), m_a[x], m_a[x])]

\* the large vectors after the storage statements of swap() (lines 176-193)
swap_m_v(self, x) ==
    IF m_is_small[self] /\ m_is_small[x] THEN m_v
    ELSE [m_v EXCEPT ![self] = m_v[x], ![x] = m_v[self]]

\* void swap(vector& x), for x another object than *this
swap(self, x) ==
    /\ self # x
    /\ m_a' = swap_m_a(self, x)
    /\ m_v' = swap_m_v(self, x)
    /\ m_size' = std_swap(m_size, self, x)
    /\ m_is_small' = std_swap(m_is_small, self, x)
    /\ last' = [op |-> "swap", self |-> self, n |-> 0,
                was_small |-> m_is_small[self],
                repeat |-> FALSE]

\* operator[](n) = value: a write through the returned reference, for an
\* index below size() whose slot exists (a write outside the storage is not
\* modelled)
write(self, n, value) ==
    /\ n < m_size[self]
    /\ InRange(subscript(self, n))
    /\ LET p == subscript(self, n)
       IN  /\ m_a' = IF p.store = "m_a"
                     THEN [m_a EXCEPT ![self][n + 1] = [b |-> value]]
                     ELSE m_a
           /\ m_v' = IF p.store = "m_v"
                     THEN [m_v EXCEPT ![self][n + 1] = [b |-> value]]
                     ELSE m_v
    /\ UNCHANGED <<m_is_small, m_size>>
    /\ last' = [op |-> "write", self |-> self, n |-> 0,
                was_small |-> m_is_small[self], repeat |-> FALSE]

Next ==
    \/ \E self \in Driven, n \in 0..MaxN :
          resize(self, n) /\ UNCHANGED scenario_vars
    \/ \E self \in Containers, x \in Containers :
          swap(self, x) /\ UNCHANGED scenario_vars
    \/ \E self \in Driven, n \in 0..(MaxN - 1), value \in BOOLEAN :
          write(self, n, value) /\ UNCHANGED scenario_vars

Spec == Init /\ [][Next]_vars

\* the same program when the allocator of m_v may fail
NextFail ==
    \/ \E self \in Driven, n \in 0..MaxN :
          resize(self, n) /\ UNCHANGED scenario_vars
    \/ \E self \in Driven, n \in 0..MaxN :
          resize_throws_in_assign(self, n) /\ UNCHANGED scenario_vars
    \/ \E self \in Driven, n \in 0..MaxN :
          resize_throws_in_resize(self, n) /\ UNCHANGED scenario_vars
    \/ \E self \in Containers, x \in Containers :
          swap(self, x) /\ UNCHANGED scenario_vars
    \/ \E self \in Driven, n \in 0..(MaxN - 1), value \in BOOLEAN :
          write(self, n, value) /\ UNCHANGED scenario_vars

SpecFail == Init /\ [][NextFail]_vars

----------------------------------------------------------------------------
\* swap() statement by statement: the running call is the one recorded in
\* last, trace lists the statements it has executed, pre is the state at the
\* call.  resize and write run between calls only.

\* the other object of the pair
Other(c) == CHOOSE d \in Containers : d # c

\* swap() that exchanges m_size and m_is_small before the storage
SwapOrder_members_first == <<"m_size", "m_is_small", "storage">>

\* the statements of swap() in program order: the if/else chain over the
\* storage (lines 176-193), std::swap(m_size, ...) (line 194),
\* std::swap(m_is_small, ...) (line 195)
SwapOrder == <<"storage", "m_size", "m_is_small">>

\* a call of swap() has been entered and has statements left
SwapRunning == last.op = "swap_call" /\ Len(trace) < Len(SwapOrder)

\* the next statement of the running call is the one named
SwapAt(statement) == SwapRunning /\ SwapOrder[Len(trace) + 1] = statement

\* self.swap(x) is called
swap_call(self, x) ==
    /\ ~SwapRunning
    /\ self # x
    /\ pre' = Snapshot
    /\ trace' = <<>>
    /\ last' = [op |-> "swap_call", self |-> self, n |-> 0,
                was_small |-> m_is_small[self], repeat |-> FALSE]
    /\ UNCHANGED <<m_v, m_a, m_is_small, m_size, iter, ret>>

\* lines 176-193 of the running call
swap_storage ==
    /\ SwapAt("storage")
    /\ m_a' = swap_m_a(last.self, Other(last.self))
    /\ m_v' = swap_m_v(last.self, Other(last.self))
    /\ trace' = Append(trace, "storage")
    /\ UNCHANGED <<m_is_small, m_size, last, iter, ret, pre>>

\* line 194 of the running call
swap_m_size ==
    /\ SwapAt("m_size")
    /\ m_size' = std_swap(m_size, last.self, Other(last.self))
    /\ trace' = Append(trace, "m_size")
    /\ UNCHANGED <<m_v, m_a, m_is_small, last, iter, ret, pre>>

\* line 195 of the running call
swap_m_is_small ==
    /\ SwapAt("m_is_small")
    /\ m_is_small' = std_swap(m_is_small, last.self, Other(last.self))
    /\ trace' = Append(trace, "m_is_small")
    /\ UNCHANGED <<m_v, m_a, m_size, last, iter, ret, pre>>

\* a call of another member function, between calls of swap()
BetweenSwaps ==
    /\ ~SwapRunning
    /\ trace' = <<>>
    /\ pre' = NoSnapshot
    /\ UNCHANGED <<iter, ret>>

NextSwapSteps ==
    \/ \E self \in Containers, x \in Containers : swap_call(self, x)
    \/ swap_storage
    \/ swap_m_size
    \/ swap_m_is_small
    \/ \E self \in Driven, n \in 0..MaxN : resize(self, n) /\ BetweenSwaps
    \/ \E self \in Driven, n \in 0..(MaxN - 1), value \in BOOLEAN :
          write(self, n, value) /\ BetweenSwaps

SpecSwapSteps == Init /\ [][NextSwapSteps]_vars

----------------------------------------------------------------------------
\* Two calls of swap() in a row on the same pair, in either orientation:
\* trace counts the calls, pre is the state before the first of them.

swap_first(self, x) ==
    /\ Len(trace) # 1
    /\ swap(self, x)
    /\ pre' = Snapshot
    /\ trace' = <<"swap">>
    /\ UNCHANGED <<iter, ret>>

swap_again(self, x) ==
    /\ Len(trace) = 1
    /\ swap(self, x)
    /\ trace' = Append(trace, "swap")
    /\ UNCHANGED <<iter, ret, pre>>

\* a call of another member function ends the scenario
NotASwap ==
    /\ trace' = <<>>
    /\ pre' = NoSnapshot
    /\ UNCHANGED <<iter, ret>>

NextSwapTwice ==
    \/ \E self \in Containers, x \in Containers : swap_first(self, x)
    \/ \E self \in Containers, x \in Containers : swap_again(self, x)
    \/ \E self \in Driven, n \in 0..MaxN : resize(self, n) /\ NotASwap
    \/ \E self \in Driven, n \in 0..(MaxN - 1), value \in BOOLEAN :
          write(self, n, value) /\ NotASwap

SpecSwapTwice == Init /\ [][NextSwapTwice]_vars

----------------------------------------------------------------------------
\* Iterator scenario: X has been resized once, the caller takes begin() or
\* end() of a container and moves the iterator inside [begin(), end()].

IterCall(name, c) ==
    [op |-> name, self |-> c, n |-> 0, was_small |-> m_is_small[c],
     repeat |-> FALSE]

InitIter ==
    \E n \in 0..MaxN :
      /\ m_size = [c \in Containers |-> IF c \in Driven THEN n ELSE 0]
      /\ m_is_small =
           [c \in Containers |-> IF c \in Driven THEN is_small_for(n) ELSE TRUE]
      /\ m_a \in [Containers -> small_array]
      /\ m_v = [c \in Containers |->
                  IF c \in Driven /\ ~is_small_for(n) THEN vec_resize(<<>>, n)
                  ELSE <<>>]
      /\ last = NoCall
      /\ iter = NullIterator
      /\ ret = NullIterator
      /\ trace = <<>>
      /\ pre = NoSnapshot

\* iterator it = c.begin()
call_begin(c) ==
    /\ iter' = begin(c)
    /\ ret' = begin(c)
    /\ last' = IterCall("begin", c)
    /\ UNCHANGED <<m_v, m_a, m_is_small, m_size, trace, pre>>

\* iterator it = c.end()
call_end(c) ==
    /\ iter' = end(c)
    /\ ret' = end(c)
    /\ last' = IterCall("end", c)
    /\ UNCHANGED <<m_v, m_a, m_is_small, m_size, trace, pre>>

\* ++it, for an iterator before end()
call_pre_inc ==
    /\ iter # NullIterator
    /\ iter.off < m_size[iter.owner]
    /\ iter' = operator_pre_inc(iter).self
    /\ ret' = operator_pre_inc(iter).ret
    /\ last' = IterCall("pre_inc", iter.owner)
    /\ UNCHANGED <<m_v, m_a, m_is_small, m_size, trace, pre>>

\* --it, for an iterator after begin()
call_pre_dec ==
    /\ iter # NullIterator
    /\ iter.off > 0
    /\ iter' = operator_pre_dec(iter).self
    /\ ret' = operator_pre_dec(iter).ret
    /\ last' = IterCall("pre_dec", iter.owner)
    /\ UNCHANGED <<m_v, m_a, m_is_small, m_size, trace, pre>>

\* it++, for an iterator before end()
call_post_inc ==
    /\ iter # NullIterator
    /\ iter.off < m_size[iter.owner]
    /\ iter' = operator_post_inc(iter).self
    /\ ret' = operator_post_inc(iter).ret
    /\ last' = IterCall("post_inc", iter.owner)
    /\ UNCHANGED <<m_v, m_a, m_is_small, m_size, trace, pre>>

\* it--, for an iterator after begin()
call_post_dec ==
    /\ iter # NullIterator
    /\ iter.off > 0
    /\ iter' = operator_post_dec(iter).self
    /\ ret' = operator_post_dec(iter).ret
    /\ last' = IterCall("post_dec", iter.owner)
    /\ UNCHANGED <<m_v, m_a, m_is_small, m_size, trace, pre>>

NextIter ==
    \/ \E c \in Containers : call_begin(c)
    \/ \E c \in Containers : call_end(c)
    \/ call_pre_inc
    \/ call_pre_dec
    \/ call_post_inc
    \/ call_post_dec

SpecIter == InitIter /\ [][NextIter]_vars

----------------------------------------------------------------------------
\* Properties

\* C1: in every state reached by resize and swap, Mode is Small iff
\* size <= small_size, and right after resize(n) the size is n.
C1_ModeIffSizeAndResizeSetsSize ==
    /\ \A c \in Containers : m_is_small[c] <=> (m_size[c] <= small_size)
    /\ last.op = "resize" => size(last.self) = last.n

\* a resize that crossed Small -> Large has just returned
C1_Witness ==
    /\ last.op = "resize" /\ last.was_small /\ last.n > small_size
    /\ ~m_is_small[last.self] /\ size(last.self) = last.n

\* C2: resize(n) keeps the value at every index below min(old size, n),
\* whichever of the four Mode paths it takes.
C2_ResizePreservesElements ==
    [][\A c \in Containers, n \in 0..MaxN :
         (last'.op = "resize" /\ last'.self = c /\ last'.n = n /\ resize(c, n)) =>
           \A i \in 0..(Min(m_size[c], n) - 1) : Read(c, i)' = Read(c, i)]_vars

\* a resize that crossed Large -> Small kept a true element at index 0,
\* copied from the large vector
C2_Witness ==
    /\ last.op = "resize" /\ ~last.was_small /\ last.n >= 1
    /\ m_is_small[last.self]
    /\ Read(last.self, 0) = <<TRUE>>
    /\ ToBool(m_v[last.self][1])

\* C3: self.swap(x) exchanges size, Mode and the visible elements of the two
\* containers.
C3_SwapExchanges ==
    [][\A c \in Containers, x \in Containers :
         (last'.op = "swap" /\ last'.self = c /\ swap(c, x)) =>
           /\ m_size'[c] = m_size[x] /\ m_size'[x] = m_size[c]
           /\ m_is_small'[c] = m_is_small[x] /\ m_is_small'[x] = m_is_small[c]
           /\ Visible(c)' = Visible(x)
           /\ Visible(x)' = Visible(c)]_vars

\* a swap between a Small, non-empty container and a Large one has returned
C3_Witness ==
    /\ last.op = "swap"
    /\ \E c \in Containers, x \in Containers :
         /\ m_is_small[c] /\ m_size[c] > 0 /\ ~m_is_small[x]
         /\ Read(c, 0) = <<TRUE>> /\ Read(x, 0) = <<FALSE>>

\* C4: a resize(n) whose allocation fails leaves size, Mode and the visible
\* elements as they were, and the large vector is never shorter than a
\* size that has already been updated.
C4_NoPartialFailure ==
    [][\A c \in Containers, n \in 0..MaxN :
         (resize_throws_in_assign(c, n) \/ resize_throws_in_resize(c, n)) =>
           /\ m_size'[c] = m_size[c]
           /\ m_is_small'[c] = m_is_small[c]
           /\ Visible(c)' = Visible(c)
           /\ ~(m_size'[c] = n /\ Len(m_v'[c]) < n)]_vars

\* C5: when resize(n) crosses Small -> Large, every index from the old size
\* up to n holds the default element afterwards.
C5_NewSlotsAreDefault ==
    [][\A c \in Containers, n \in 0..MaxN :
         (resize(c, n) /\ m_is_small[c] /\ n > small_size) =>
           \A i \in m_size[c]..(n - 1) : Read(c, i)' = <<ToBool(DefaultT)>>]_vars

\* C6 as stated: Mode starts Small and changes only in a resize(n), to Large
\* with n > small_size and to Small with n <= small_size.
C6_ModeChangesOnlyInResize ==
    [][\A c \in Containers :
         m_is_small'[c] # m_is_small[c] =>
           \E n \in 0..MaxN :
              /\ resize(c, n)
              /\ (m_is_small[c] => n > small_size)
              /\ (~m_is_small[c] => n <= small_size)]_vars

\* C6 amended: Mode starts Small and changes only in a resize(n), to Large
\* with n > small_size and to Small with n <= small_size, or in a swap with a
\* container of the other Mode; a write through operator[] never changes it.
C6_ModeChangesOnlyInResizeOrSwap ==
    /\ \A c \in Containers : m_is_small[c]
    /\ [][\A c \in Containers :
            m_is_small'[c] # m_is_small[c] =>
              \/ \E n \in 0..MaxN :
                    /\ resize(c, n)
                    /\ (m_is_small[c] => n > small_size)
                    /\ (~m_is_small[c] => n <= small_size)
              \/ \E x \in Containers :
                    /\ swap(c, x) \/ swap(x, c)
                    /\ m_is_small[x] # m_is_small[c]]_vars

\* a swap has just turned the Mode of the container it was called on
C6_Witness ==
    /\ last.op = "swap"
    /\ m_is_small[last.self] # last.was_small

\* C7: begin()..end() spans exactly size() elements and the i-th one is the
\* slot and value of operator[](i), in both Modes.
C7_IterationConsistent ==
    \A c \in Containers :
      /\ IterDiff(end(c), begin(c)) = size(c)
      /\ \A i \in 0..(m_size[c] - 1) :
           /\ IterPlus(begin(c), i) = subscript(c, i)
           /\ InRange(IterPlus(begin(c), i))
           /\ <<ToBool(IterDeref(IterPlus(begin(c), i)))>> = Read(c, i)

\* one container is Large and the other Small and non-empty
C7_Witness ==
    \E c \in Containers, x \in Containers :
      /\ ~m_is_small[c] /\ m_size[c] = MaxN /\ Read(c, MaxN - 1) = <<TRUE>>
      /\ m_is_small[x] /\ m_size[x] > 0

\* C8: a second resize(n) right after resize(n) changes neither size, Mode
\* nor any visible element.
C8_ResizeIdempotent ==
    [][\A c \in Containers, n \in 0..MaxN :
         (last.op = "resize" /\ last.self = c /\ last.n = n /\ resize(c, n)) =>
           /\ m_size'[c] = m_size[c]
           /\ m_is_small'[c] = m_is_small[c]
           /\ Visible(c)' = Visible(c)]_vars

\* a Large container holding a true element has been resized twice in a row
\* to the same n
C8_Witness ==
    /\ last.op = "resize" /\ last.repeat
    /\ ~m_is_small[last.self]
    /\ Read(last.self, 0) = <<TRUE>>

\* C9: without allocation failure, a Small container has size <= small_size
\* and a Large one has a large vector of exactly size elements, so every
\* index below size() is a slot of the active storage.
C9_SizeWithinActiveStorage ==
    \A c \in Containers :
      /\ m_is_small[c] => m_size[c] <= small_size
      /\ ~m_is_small[c] => Len(m_v[c]) = m_size[c]
      /\ \A i \in 0..(m_size[c] - 1) : InRange(subscript(c, i))

\* a swap has handed a large vector to a container that was Small
C9_Witness ==
    /\ last.op = "swap" /\ last.was_small
    /\ ~m_is_small[last.self]
    /\ Len(m_v[last.self]) = m_size[last.self]

\* C10: after writing b through operator[](i), operator[](i) and
\* *(begin() + i) both read b, every other index keeps its value, and
\* different indices are different slots.
C10_WriteReadRoundTrip ==
    [][\A c \in Containers, i \in 0..(MaxN - 1), value \in BOOLEAN :
         (last'.op = "write" /\ last'.self = c /\ write(c, i, value)) =>
           /\ Read(c, i)' = <<value>>
           /\ ToBool(IterDeref(IterPlus(begin(c), i)))' = value
           /\ \A j \in 0..(m_size[c] - 1) :
                j # i => /\ Read(c, j)' = Read(c, j)
                         /\ subscript(c, j) # subscript(c, i)
           /\ \A x \in Containers \ {c} : Visible(x)' = Visible(x)]_vars

\* a write to a Large container has returned and its last element is true
C10_Witness ==
    /\ last.op = "write" /\ ~m_is_small[last.self]
    /\ Read(last.self, m_size[last.self] - 1) = <<TRUE>>

\* C12: for a non-empty container, in both Modes, front() is the element of
\* operator[](0) and back() is the element of operator[](size() - 1).
C12_FrontBackMatchSubscript ==
    \A c \in Containers :
      ~empty(c) =>
        /\ front(c) = subscript(c, 0)
        /\ back(c) = subscript(c, size(c) - 1)
        /\ InRange(front(c)) /\ InRange(back(c))

\* a Large container whose first and last elements differ
C12_Witness ==
    \E c \in Containers :
      /\ ~m_is_small[c] /\ m_size[c] = MaxN
      /\ Deref(front(c)) = [b |-> TRUE] /\ Deref(back(c)) = [b |-> FALSE]

\* C13: a resize(n) that stays Small changes neither storage, and one that
\* stays Large leaves the small array alone and changes of the large vector
\* only its length.
C13_NonCrossingResizeFrame ==
    [][\A c \in Containers, n \in 0..MaxN :
         (last'.op = "resize" /\ last'.self = c /\ last'.n = n /\ resize(c, n)) =>
           /\ (m_is_small[c] /\ n <= small_size) =>
                /\ m_a' = m_a /\ m_v' = m_v
                /\ m_is_small' = m_is_small
           /\ (~m_is_small[c] /\ n > small_size) =>
                /\ m_a' = m_a
                /\ m_is_small' = m_is_small
                /\ Len(m_v'[c]) = n
                /\ \A i \in 1..Min(Len(m_v[c]), n) : m_v'[c][i] = m_v[c][i]
                /\ \A x \in Containers \ {c} : m_v'[x] = m_v[x]]_vars

\* a resize from Small to Small has returned on a container whose stale
\* large vector and small array hold different first elements
C13_Witness ==
    /\ last.op = "resize" /\ last.was_small /\ last.n = 1
    /\ m_is_small[last.self]
    /\ Len(m_v[last.self]) > small_size
    /\ m_v[last.self][1] # m_a[last.self][1]

\* C14: when both containers are Large, swap exchanges the two large vectors,
\* size and Mode, and leaves both small arrays as they are.
C14_LargeLargeSwapFrame ==
    [][\A c \in Containers, x \in Containers :
         (last'.op = "swap" /\ last'.self = c /\ swap(c, x)
            /\ ~m_is_small[c] /\ ~m_is_small[x]) =>
           /\ m_a' = m_a
           /\ m_v'[c] = m_v[x] /\ m_v'[x] = m_v[c]
           /\ m_size'[c] = m_size[x] /\ m_size'[x] = m_size[c]
           /\ ~m_is_small'[c] /\ ~m_is_small'[x]]_vars

\* a swap of two Large containers of different sizes has returned, and
\* their small arrays differ
C14_Witness ==
    /\ last.op = "swap" /\ ~last.was_small
    /\ \A c \in Containers : ~m_is_small[c]
    /\ m_size["X"] # m_size["Y"]
    /\ m_a["X"] # m_a["Y"]

\* C17: a resize(n) that crosses Large -> Small leaves the large vector with
\* the length and the elements it had.
C17_ShrinkKeepsLargeStorage ==
    [][\A c \in Containers, n \in 0..MaxN :
         (last'.op = "resize" /\ last'.self = c /\ last'.n = n /\ resize(c, n)
            /\ ~m_is_small[c] /\ n <= small_size) =>
           /\ m_is_small'[c]
           /\ m_v'[c] = m_v[c]]_vars

\* a resize from Large to Small has returned and the large vector is still
\* longer than small_size and holds a true element
C17_Witness ==
    /\ last.op = "resize" /\ ~last.was_small
    /\ m_is_small[last.self]
    /\ Len(m_v[last.self]) > small_size
    /\ \E i \in 1..Len(m_v[last.self]) : ToBool(m_v[last.self][i])

\* C11: it++ and it-- move the iterator by one slot and return an iterator
\* at the new position, not at the position held before the call.
C11_PostfixReturnsMovedIterator ==
    [][/\ call_post_inc =>
            /\ iter' = IterPlus(iter, 1)
            /\ ret' = iter' /\ ret' # iter
       /\ call_post_dec =>
            /\ iter' = IterPlus(iter, -1)
            /\ ret' = iter' /\ ret' # iter]_vars

\* it++ on an iterator into the large vector has returned the iterator at
\* the second slot
C11_Witness ==
    /\ last.op = "post_inc"
    /\ iter.store = "m_v" /\ iter.off = 2
    /\ ret = iter

\* C18: ++it and --it move the iterator by one slot and return an iterator
\* at the position held before the call.
C18_PrefixReturnsOldIterator ==
    [][/\ call_pre_inc =>
            /\ iter' = IterPlus(iter, 1)
            /\ ret' = iter /\ ret' # iter'
       /\ call_pre_dec =>
            /\ iter' = IterPlus(iter, -1)
            /\ ret' = iter /\ ret' # iter']_vars

\* ++it on an iterator into the large vector has moved it to the second slot
\* and returned the iterator at the first
C18_Witness ==
    /\ last.op = "pre_inc"
    /\ iter.store = "m_v" /\ iter.off = 2
    /\ ret = IterPlus(iter, -1)

\* C15: in every Mode pairing swap() runs its storage statements first and
\* exchanges m_size and m_is_small as its last two statements (neither
\* differs from the state at the call before the storage statements ran),
\* and when it returns each object is Small iff its size is at most
\* small_size, its large vector covers its size when it is Large, and its
\* elements [0, size) are the other object's former elements.
C15_SwapStorageFirstThenSizeAndMode ==
    last.op = "swap_call" =>
      /\ \A i \in 1..Len(trace) :
            trace[i] = <<"storage", "m_size", "m_is_small">>[i]
      /\ (\A i \in 1..Len(trace) : trace[i] # "storage") =>
            /\ m_size = pre.m_size
            /\ m_is_small = pre.m_is_small
      /\ Len(trace) = 3 =>
            \A c \in Containers :
              /\ m_is_small[c] = (m_size[c] <= small_size)
              /\ ~m_is_small[c] => Len(m_v[c]) = m_size[c]
              /\ m_size[c] = pre.m_size[Other(c)]
              /\ m_is_small[c] = pre.m_is_small[Other(c)]
              /\ Visible(c) = pre.visible[Other(c)]

\* a swap of a Small object holding TRUE with a Large object has returned
C15_Witness ==
    /\ last.op = "swap_call" /\ last.self = "X"
    /\ Len(trace) = 3
    /\ pre.m_is_small["X"] /\ pre.m_size["X"] = small_size
    /\ ~pre.m_is_small["Y"] /\ pre.m_size["Y"] = MaxN
    /\ pre.visible["X"][1] = <<TRUE>>
    /\ Visible("Y") = pre.visible["X"]
    /\ Visible("X") = pre.visible["Y"]

\* C16: two calls of swap() in a row on the same pair, the second in either
\* orientation, leave size, Mode and the elements [0, size) of both objects
\* as they were before the first call.
C16_SwapTwiceRestores ==
    Len(trace) = 2 => Snapshot = pre

\* X.swap(Y) and then Y.swap(X) have run on a Large object and a Small one
\* of different elements
C16_Witness ==
    /\ Len(trace) = 2
    /\ last.self = "Y"
    /\ ~m_is_small["X"] /\ m_is_small["Y"] /\ m_size["Y"] = small_size
    /\ Visible("X")[1] # Visible("Y")[1]
    /\ Snapshot = pre

====
